---- MODULE Spec2Model ----
(***************************************************************************)
(* Synk backend: the WebSocketHandler message router of                    *)
(* synk-backend/src/WebSocketHandler.ts, with the Room state machine it    *)
(* drives (Room.ts, described in the specification, sections 3 and 4.3).   *)
(*                                                                         *)
(* One action per event the handler reacts to: each inbound message type, *)
(* the transport starting to close, the close event, the idle sweep, the   *)
(* shutdown, and the passage of time.  Node dispatches events one at a     *)
(* time and no handler awaits, so every handler is one atomic step.        *)
(* handleConnection(ws) only creates the closure (userId, roomId = null):  *)
(* Init is the state in which every socket of Conns has been accepted and  *)
(* none has sent anything yet.                                             *)
(*                                                                         *)
(* A handler is an operator from the current state and its inputs to an    *)
(* outcome: the state it leaves and the messages it writes, in order, each *)
(* with the socket it is written to.  The action of an event installs the  *)
(* outcome's state; what was written is read off the outcome.              *)
(***************************************************************************)
EXTENDS Integers, Sequences, FiniteSets, TLC

\* ------------------------------------------------------------------ bounds
\* fresh ids (participant ids and song ids) that may be generated in one run
MaxUuids == 3

\* ------------------------------------------------------------- input sets
Conns == {"c1", "c2", "c3"}
\* room codes a client may send; "" is a string like any other to the
\* parser, but falsy in the session guards (userId && roomId)
Codes == {"", "R1"}
\* the display name each client declares
NameOf == [c \in Conns |-> IF c = "c1" THEN "Alice" ELSE IF c = "c2" THEN "Bob" ELSE "Carol"]
Names(c) == {NameOf[c]}

\* ------------------------------------------------------------- constants
NoId == 0
NoCode == "null"
Undefined == "undefined"
OneHour == 60 * 60 * 1000
\* the instants at which the clock is read: the start, and one more than the
\* sweep's threshold later
Instants == {0, 2 * OneHour}

VARIABLES
  rooms,            \* this.rooms: room code -> Room
  userConnections,  \* this.userConnections: participant id -> socket
  session,          \* per socket, the closure's userId and roomId
  readyState,       \* per socket, ws.readyState
  nextUuid,         \* the next value uuidv4() returns
  now               \* Date.now()

vars == <<rooms, userConnections, session, readyState, nextUuid, now>>

\* ------------------------------------------------------------- sequences
Range(s) == {s[i] : i \in DOMAIN s}

Has(s, x) == \E i \in DOMAIN s : s[i] = x

\* ------------------------------------------------------------------ Room
NoUser == [id |-> NoId, name |-> Undefined, isHost |-> FALSE]
NoSong == [id |-> NoId, addedBy |-> Undefined, votedBy |-> {}]

\* new Room(id, hostId, hostName): one user, the host; createdAt set once
NewRoom(id, hostId, hostName, t) ==
  [id |-> id, hostId |-> hostId,
   users |-> <<[id |-> hostId, name |-> hostName, isHost |-> TRUE]>>,
   queue |-> <<>>, createdAt |-> t]

UserIds(room) == {room.users[i].id : i \in DOMAIN room.users}

\* room.users.get(userId): the user record, or undefined
GetUser(room, userId) ==
  IF userId \in UserIds(room)
  THEN CHOOSE u \in Range(room.users) : u.id = userId
  ELSE NoUser

\* room.addUser(userId, name): appended, never the host
addUser(room, userId, name) ==
  [room EXCEPT !.users = Append(@, [id |-> userId, name |-> name, isHost |-> FALSE])]

\* room.removeUser(userId): the room afterwards
removeUserRoom(room, userId) ==
  LET rest == SelectSeq(room.users, LAMBDA u : u.id # userId)
      promote == userId \in UserIds(room) /\ room.hostId = userId /\ rest # <<>>
  IN  IF promote
      THEN [room EXCEPT !.users = [rest EXCEPT ![1].isHost = TRUE],
                        !.hostId = rest[1].id]
      ELSE [room EXCEPT !.users = rest]

\* room.removeUser(userId).newHost: the promoted user's id, or none
removeUserNewHost(room, userId) ==
  LET rest == SelectSeq(room.users, LAMBDA u : u.id # userId)
  IN  IF userId \in UserIds(room) /\ room.hostId = userId /\ rest # <<>>
      THEN rest[1].id ELSE NoId

\* room.addSong(song, addedBy): fresh id, no votes, appended in insertion order
addSong(room, songId, addedBy) ==
  [room EXCEPT !.queue = Append(@, [id |-> songId, addedBy |-> addedBy, votedBy |-> {}])]

SongIds(room) == {room.queue[i].id : i \in DOMAIN room.queue}

GetSong(room, songId) ==
  IF songId \in SongIds(room)
  THEN CHOOSE s \in Range(room.queue) : s.id = songId
  ELSE NoSong

\* room.voteSong(songId, userId): the boolean it returns
voteSongOk(room, songId, userId) ==
  songId \in SongIds(room) /\ userId \notin GetSong(room, songId).votedBy

\* room.voteSong(songId, userId): the room afterwards
voteSongRoom(room, songId, userId) ==
  IF voteSongOk(room, songId, userId)
  THEN [room EXCEPT !.queue =
          [i \in DOMAIN room.queue |->
             IF room.queue[i].id = songId
             THEN [room.queue[i] EXCEPT !.votedBy = @ \cup {userId}]
             ELSE room.queue[i]]]
  ELSE room

Votes(song) == Cardinality(song.votedBy)

\* the rank order: descending vote count, ties in insertion order
RECURSIVE RankFrom(_, _)
RankFrom(queue, k) ==
  IF k < 0 THEN <<>>
  ELSE SelectSeq(queue, LAMBDA s : Votes(s) = k) \o RankFrom(queue, k - 1)

MaxVotes(queue) ==
  IF queue = <<>> THEN 0
  ELSE CHOOSE m \in {Votes(queue[i]) : i \in DOMAIN queue} :
         \A i \in DOMAIN queue : Votes(queue[i]) <= m

RankOrder(queue) == RankFrom(queue, MaxVotes(queue))

\* room.skipCurrentSong(): the song it returns (the head of the rank order)
skipCurrentSongResult(room) ==
  IF room.queue = <<>> THEN NoSong ELSE Head(RankOrder(room.queue))

\* room.skipCurrentSong(): the room afterwards
skipCurrentSongRoom(room) ==
  IF room.queue = <<>> THEN room
  ELSE [room EXCEPT !.queue =
          SelectSeq(@, LAMBDA s : s.id # skipCurrentSongResult(room).id)]

\* room.clearQueue()
clearQueue(room) == [room EXCEPT !.queue = <<>>]

\* room.toJSON(): the snapshot, queue in rank order
toJSON(room) ==
  [id |-> room.id, hostId |-> room.hostId, createdAt |-> room.createdAt,
   users |-> room.users, queue |-> RankOrder(room.queue)]

NoSnap == [id |-> NoCode, hostId |-> NoId, createdAt |-> 0,
           users |-> <<>>, queue |-> <<>>]

\* ------------------------------------------------------------- messages
NoConn == "none"

\* an outbound JSON message; `to` is the socket it is written to
Msg(type) ==
  [to |-> NoConn, type |-> type, message |-> "", roomId |-> NoCode,
   userId |-> NoId, userName |-> Undefined, newHost |-> NoId,
   songId |-> NoId, song |-> NoSong, user |-> NoUser, room |-> NoSnap]

\* ws.send(JSON.stringify(message))
Send(ws, message) == [message EXCEPT !.to = ws]

ErrorMsg(text) == [Msg("error") EXCEPT !.message = text]

\* ------------------------------------------------------------- sessions
NoSession == [userId |-> NoId, roomId |-> NoCode]

\* JavaScript truthiness of a roomId: null and "" are falsy
Truthy(roomId) == roomId # NoCode /\ roomId # ""

\* the guard `userId && roomId` of the session-scoped cases and of close
Bound(c) == session[c].userId # NoId /\ Truthy(session[c].roomId)

\* Map.set(key, value)
MapSet(map, key, value) ==
  [k \in DOMAIN map \cup {key} |-> IF k = key THEN value ELSE map[k]]

\* Map.delete(key)
MapDelete(map, key) == [k \in DOMAIN map \ {key} |-> map[k]]

\* -------------------------------------------------------------- outcomes
\* the outcome of a handler that changes nothing and writes nothing
Stay ==
  [rooms |-> rooms, userConnections |-> userConnections, session |-> session,
   readyState |-> readyState, nextUuid |-> nextUuid, sent |-> <<>>]

\* the outcome of a handler that only writes to its own socket
Reply(c, message) == [Stay EXCEPT !.sent = << Send(c, message) >>]

Install(o) ==
  /\ rooms' = o.rooms
  /\ userConnections' = o.userConnections
  /\ session' = o.session
  /\ readyState' = o.readyState
  /\ nextUuid' = o.nextUuid
  /\ UNCHANGED now

\* ------------------------------------------------------------ broadcast
\* broadcastToRoom(roomId, message, excludeUserId) against the maps rs and
\* uc: one send per user of the room, in the users' order, whose id is not
\* excluded and whose registered socket is OPEN
\* broadcastToRoom giving up at the first user whose socket is missing or
\* not OPEN
broadcastToRoom_StopsAtClosed(rs, uc, roomId, message, excludeUserId) ==
  IF roomId \notin DOMAIN rs THEN <<>>
  ELSE LET users == SelectSeq(rs[roomId].users, LAMBDA u : u.id # excludeUserId)
           ok(u) == u.id \in DOMAIN uc /\ readyState[uc[u.id]] = "OPEN"
           n == Cardinality({i \in DOMAIN users : \A j \in 1..i : ok(users[j])})
       IN  [i \in 1..n |-> Send(uc[users[i].id], message)]

broadcastToRoom(rs, uc, roomId, message, excludeUserId) ==
  IF roomId \notin DOMAIN rs THEN <<>>
  ELSE LET targets == SelectSeq(rs[roomId].users,
                        LAMBDA u : /\ u.id # excludeUserId
                                   /\ u.id \in DOMAIN uc
                                   /\ readyState[uc[u.id]] = "OPEN")
       IN  [i \in 1..Len(targets) |-> Send(uc[targets[i].id], message)]

\* ------------------------------------------------------------- handlers
handleCreateRoom(c, userName, roomCode) ==
  LET userId == nextUuid
      room == NewRoom(roomCode, userId, userName, now)
  IN  [Stay EXCEPT
         !.nextUuid = nextUuid + 1,
         !.rooms = MapSet(rooms, roomCode, room),
         !.userConnections = MapSet(userConnections, userId, c),
         !.session = [session EXCEPT ![c] = [userId |-> userId, roomId |-> roomCode]],
         !.sent = << Send(c, [Msg("room_created") EXCEPT
                                !.roomId = roomCode, !.userId = userId,
                                !.room = toJSON(room)]) >>]

\* handleJoinRoom keeping the participant id a socket already has
handleJoinRoom_KeepsUserId(c, userName, roomCode) ==
  IF roomCode \notin DOMAIN rooms
  THEN Reply(c, ErrorMsg("Room not found"))
  ELSE LET userId == IF session[c].userId # NoId THEN session[c].userId ELSE nextUuid
           room == addUser(rooms[roomCode], userId, userName)
           rs == MapSet(rooms, roomCode, room)
           uc == MapSet(userConnections, userId, c)
       IN  [Stay EXCEPT
              !.nextUuid = nextUuid + 1,
              !.rooms = rs,
              !.userConnections = uc,
              !.session = [session EXCEPT ![c] = [userId |-> userId, roomId |-> roomCode]],
              !.sent = << Send(c, [Msg("room_joined") EXCEPT
                                     !.roomId = roomCode, !.userId = userId,
                                     !.room = toJSON(room)]) >>
                       \o broadcastToRoom(rs, uc, roomCode,
                            [Msg("user_joined") EXCEPT
                               !.user = GetUser(room, userId),
                               !.room = toJSON(room)],
                            userId)]

handleJoinRoom(c, userName, roomCode) ==
  IF roomCode \notin DOMAIN rooms
  THEN Reply(c, ErrorMsg("Room not found"))
  ELSE LET userId == nextUuid
           room == addUser(rooms[roomCode], userId, userName)
           rs == MapSet(rooms, roomCode, room)
           uc == MapSet(userConnections, userId, c)
       IN  [Stay EXCEPT
              !.nextUuid = nextUuid + 1,
              !.rooms = rs,
              !.userConnections = uc,
              !.session = [session EXCEPT ![c] = [userId |-> userId, roomId |-> roomCode]],
              !.sent = << Send(c, [Msg("room_joined") EXCEPT
                                     !.roomId = roomCode, !.userId = userId,
                                     !.room = toJSON(room)]) >>
                       \o broadcastToRoom(rs, uc, roomCode,
                            [Msg("user_joined") EXCEPT
                               !.user = GetUser(room, userId),
                               !.room = toJSON(room)],
                            userId)]

\* handleAddSong taking the snapshot before it appends the song
handleAddSong_SnapshotBefore(userId, roomId) ==
  IF roomId \notin DOMAIN rooms THEN Stay
  ELSE IF userId \notin UserIds(rooms[roomId]) THEN Stay
  ELSE LET user == GetUser(rooms[roomId], userId)
           songId == nextUuid
           room == addSong(rooms[roomId], songId, user.name)
           rs == MapSet(rooms, roomId, room)
       IN  [Stay EXCEPT
              !.nextUuid = nextUuid + 1,
              !.rooms = rs,
              !.sent = broadcastToRoom(rs, userConnections, roomId,
                         [Msg("song_added") EXCEPT
                            !.song = GetSong(room, songId),
                            !.room = toJSON(rooms[roomId])],
                         NoId)]

\* handleAddSong broadcasting to the others only: the sender is excluded
handleAddSong_ExcludesSender(userId, roomId) ==
  IF roomId \notin DOMAIN rooms THEN Stay
  ELSE IF userId \notin UserIds(rooms[roomId]) THEN Stay
  ELSE LET user == GetUser(rooms[roomId], userId)
           songId == nextUuid
           room == addSong(rooms[roomId], songId, user.name)
           rs == MapSet(rooms, roomId, room)
       IN  [Stay EXCEPT
              !.nextUuid = nextUuid + 1,
              !.rooms = rs,
              !.sent = broadcastToRoom(rs, userConnections, roomId,
                         [Msg("song_added") EXCEPT
                            !.song = GetSong(room, songId),
                            !.room = toJSON(room)],
                         userId)]

handleAddSong(userId, roomId) ==
  IF roomId \notin DOMAIN rooms THEN Stay
  ELSE IF userId \notin UserIds(rooms[roomId]) THEN Stay
  ELSE LET user == GetUser(rooms[roomId], userId)
           songId == nextUuid
           room == addSong(rooms[roomId], songId, user.name)
           rs == MapSet(rooms, roomId, room)
       IN  [Stay EXCEPT
              !.nextUuid = nextUuid + 1,
              !.rooms = rs,
              !.sent = broadcastToRoom(rs, userConnections, roomId,
                         [Msg("song_added") EXCEPT
                            !.song = GetSong(room, songId),
                            !.room = toJSON(room)],
                         NoId)]

\* handleVoteSong sending the queue as the room stores it, not as toJSON
\* orders it
handleVoteSong_StoredOrder(c, songId, userId, roomId) ==
  IF roomId \notin DOMAIN rooms
  THEN Reply(c, ErrorMsg("Room not found"))
  ELSE LET success == voteSongOk(rooms[roomId], songId, userId)
           room == voteSongRoom(rooms[roomId], songId, userId)
           rs == MapSet(rooms, roomId, room)
       IN  IF success
           THEN [Stay EXCEPT
                   !.rooms = rs,
                   !.sent = broadcastToRoom(rs, userConnections, roomId,
                              [Msg("song_voted") EXCEPT
                                 !.songId = songId, !.userId = userId,
                                 !.room = [toJSON(room) EXCEPT !.queue = room.queue]],
                              NoId)]
           ELSE [Reply(c, ErrorMsg("Already voted for this song")) EXCEPT
                   !.rooms = rs]

\* handleVoteSong writing nothing when room.voteSong returns false
handleVoteSong_SilentOnFailure(c, songId, userId, roomId) ==
  IF roomId \notin DOMAIN rooms
  THEN Reply(c, ErrorMsg("Room not found"))
  ELSE LET success == voteSongOk(rooms[roomId], songId, userId)
           room == voteSongRoom(rooms[roomId], songId, userId)
           rs == MapSet(rooms, roomId, room)
       IN  IF success
           THEN [Stay EXCEPT
                   !.rooms = rs,
                   !.sent = broadcastToRoom(rs, userConnections, roomId,
                              [Msg("song_voted") EXCEPT
                                 !.songId = songId, !.userId = userId,
                                 !.room = toJSON(room)],
                              NoId)]
           ELSE [Stay EXCEPT !.rooms = rs]

\* handleVoteSong ignoring what room.voteSong returns: it always broadcasts
handleVoteSong_IgnoresResult(c, songId, userId, roomId) ==
  IF roomId \notin DOMAIN rooms
  THEN Reply(c, ErrorMsg("Room not found"))
  ELSE LET room == voteSongRoom(rooms[roomId], songId, userId)
           rs == MapSet(rooms, roomId, room)
       IN  [Stay EXCEPT
              !.rooms = rs,
              !.sent = broadcastToRoom(rs, userConnections, roomId,
                         [Msg("song_voted") EXCEPT
                            !.songId = songId, !.userId = userId,
                            !.room = toJSON(room)],
                         NoId)]

handleVoteSong(c, songId, userId, roomId) ==
  IF roomId \notin DOMAIN rooms
  THEN Reply(c, ErrorMsg("Room not found"))
  ELSE LET success == voteSongOk(rooms[roomId], songId, userId)
           room == voteSongRoom(rooms[roomId], songId, userId)
           rs == MapSet(rooms, roomId, room)
       IN  IF success
           THEN [Stay EXCEPT
                   !.rooms = rs,
                   !.sent = broadcastToRoom(rs, userConnections, roomId,
                              [Msg("song_voted") EXCEPT
                                 !.songId = songId, !.userId = userId,
                                 !.room = toJSON(room)],
                              NoId)]
           ELSE [Reply(c, ErrorMsg("Already voted for this song")) EXCEPT
                   !.rooms = rs]

\* handleSkipSong telling the whole room that a non-host tried to skip
handleSkipSong_ErrorToRoom(c, userId, roomId) ==
  IF roomId \notin DOMAIN rooms
  THEN Reply(c, ErrorMsg("Only host can skip songs"))
  ELSE IF rooms[roomId].hostId # userId
  THEN [Stay EXCEPT
          !.sent = broadcastToRoom(rooms, userConnections, roomId,
                     ErrorMsg("Only host can skip songs"), NoId)]
  ELSE LET skippedSong == skipCurrentSongResult(rooms[roomId])
           room == skipCurrentSongRoom(rooms[roomId])
           rs == MapSet(rooms, roomId, room)
       IN  IF skippedSong # NoSong
           THEN [Stay EXCEPT
                   !.rooms = rs,
                   !.sent = broadcastToRoom(rs, userConnections, roomId,
                              [Msg("song_skipped") EXCEPT
                                 !.song = skippedSong,
                                 !.room = toJSON(room)],
                              NoId)]
           ELSE [Stay EXCEPT !.rooms = rs]

\* handleSkipSong without the host check: only the room lookup guards it
handleSkipSong_NoHostCheck(c, userId, roomId) ==
  IF roomId \notin DOMAIN rooms
  THEN Reply(c, ErrorMsg("Only host can skip songs"))
  ELSE LET skippedSong == skipCurrentSongResult(rooms[roomId])
           room == skipCurrentSongRoom(rooms[roomId])
           rs == MapSet(rooms, roomId, room)
       IN  IF skippedSong # NoSong
           THEN [Stay EXCEPT
                   !.rooms = rs,
                   !.sent = broadcastToRoom(rs, userConnections, roomId,
                              [Msg("song_skipped") EXCEPT
                                 !.song = skippedSong,
                                 !.room = toJSON(room)],
                              NoId)]
           ELSE [Stay EXCEPT !.rooms = rs]

handleSkipSong(c, userId, roomId) ==
  IF roomId \notin DOMAIN rooms \/ rooms[roomId].hostId # userId
  THEN Reply(c, ErrorMsg("Only host can skip songs"))
  ELSE LET skippedSong == skipCurrentSongResult(rooms[roomId])
           room == skipCurrentSongRoom(rooms[roomId])
           rs == MapSet(rooms, roomId, room)
       IN  IF skippedSong # NoSong
           THEN [Stay EXCEPT
                   !.rooms = rs,
                   !.sent = broadcastToRoom(rs, userConnections, roomId,
                              [Msg("song_skipped") EXCEPT
                                 !.song = skippedSong,
                                 !.room = toJSON(room)],
                              NoId)]
           ELSE [Stay EXCEPT !.rooms = rs]

\* handleClearQueue staying silent when there is nothing to clear
handleClearQueue_SilentWhenEmpty(c, userId, roomId) ==
  IF roomId \notin DOMAIN rooms \/ rooms[roomId].hostId # userId
  THEN Reply(c, ErrorMsg("Only host can clear queue"))
  ELSE IF rooms[roomId].queue = <<>> THEN Stay
  ELSE LET room == clearQueue(rooms[roomId])
           rs == MapSet(rooms, roomId, room)
       IN  [Stay EXCEPT
              !.rooms = rs,
              !.sent = broadcastToRoom(rs, userConnections, roomId,
                         [Msg("queue_cleared") EXCEPT !.room = toJSON(room)],
                         NoId)]

handleClearQueue(c, userId, roomId) ==
  IF roomId \notin DOMAIN rooms \/ rooms[roomId].hostId # userId
  THEN Reply(c, ErrorMsg("Only host can clear queue"))
  ELSE LET room == clearQueue(rooms[roomId])
           rs == MapSet(rooms, roomId, room)
       IN  [Stay EXCEPT
              !.rooms = rs,
              !.sent = broadcastToRoom(rs, userConnections, roomId,
                         [Msg("queue_cleared") EXCEPT !.room = toJSON(room)],
                         NoId)]

handleGetRoomState(c, roomId) ==
  IF roomId \notin DOMAIN rooms
  THEN Reply(c, ErrorMsg("Room not found"))
  ELSE Reply(c, [Msg("room_state") EXCEPT !.room = toJSON(rooms[roomId])])

\* handleUserLeave without the deletion of a room left empty
handleUserLeave_KeepsEmptyRoom(userId, roomId) ==
  IF roomId \notin DOMAIN rooms THEN Stay
  ELSE LET user == GetUser(rooms[roomId], userId)
           newHost == removeUserNewHost(rooms[roomId], userId)
           room == removeUserRoom(rooms[roomId], userId)
           uc == MapDelete(userConnections, userId)
           rs == MapSet(rooms, roomId, room)
       IN  [Stay EXCEPT
              !.userConnections = uc,
              !.rooms = rs,
              !.sent = broadcastToRoom(rs, uc, roomId,
                         [Msg("user_left") EXCEPT
                            !.userId = userId,
                            !.userName = user.name,
                            !.newHost = newHost,
                            !.room = toJSON(room)],
                         NoId)]

handleUserLeave(userId, roomId) ==
  IF roomId \notin DOMAIN rooms THEN Stay
  ELSE LET user == GetUser(rooms[roomId], userId)
           newHost == removeUserNewHost(rooms[roomId], userId)
           room == removeUserRoom(rooms[roomId], userId)
           uc == MapDelete(userConnections, userId)
           rs == MapSet(rooms, roomId, room)
       IN  IF room.users = <<>>
           THEN [Stay EXCEPT
                   !.userConnections = uc,
                   !.rooms = MapDelete(rooms, roomId)]
           ELSE [Stay EXCEPT
                   !.userConnections = uc,
                   !.rooms = rs,
                   !.sent = broadcastToRoom(rs, uc, roomId,
                              [Msg("user_left") EXCEPT
                                 !.userId = userId,
                                 !.userName = user.name,
                                 !.newHost = newHost,
                                 !.room = toJSON(room)],
                              NoId)]

\* ----------------------------------------------------- ws.on('message')
\* the switch of the message callback, one operator per case: the outcome
\* of a message of that type arriving on socket c
onCreateRoom(c, userName, roomCode) == handleCreateRoom(c, userName, roomCode)

onJoinRoom(c, userName, roomCode) == handleJoinRoom(c, userName, roomCode)

onAddSong(c) ==
  IF Bound(c) THEN handleAddSong(session[c].userId, session[c].roomId) ELSE Stay

onVoteSong(c, songId) ==
  IF Bound(c) THEN handleVoteSong(c, songId, session[c].userId, session[c].roomId)
  ELSE Stay

onSkipSong(c) ==
  IF Bound(c) THEN handleSkipSong(c, session[c].userId, session[c].roomId) ELSE Stay

onClearQueue(c) ==
  IF Bound(c) THEN handleClearQueue(c, session[c].userId, session[c].roomId) ELSE Stay

\* the get_room_state case without the guard on the session
onGetRoomState_NoGuard(c) == handleGetRoomState(c, session[c].roomId)

onGetRoomState(c) ==
  IF Bound(c) THEN handleGetRoomState(c, session[c].roomId) ELSE Stay

onPing(c) == Reply(c, Msg("pong"))

\* the default case: a parsed message whose type is none of the above
onUnknownType(c) == Reply(c, ErrorMsg("Unknown message type"))

\* the catch replying and then closing the socket
onInvalidMessage_ClosesSocket(c) ==
  [Reply(c, ErrorMsg("Invalid message format")) EXCEPT
     !.readyState = [readyState EXCEPT ![c] = "CLOSING"]]

\* the catch: JSON.parse throws, or the parsed value has no properties
onInvalidMessage(c) == Reply(c, ErrorMsg("Invalid message format"))

\* ------------------------------------------------------- ws.on('close')
\* the socket is CLOSED when its close event is dispatched, so the leave's
\* broadcast skips the users registered to it
onClose(c) ==
  LET left == IF Bound(c)
              THEN handleUserLeave(session[c].userId, session[c].roomId)
              ELSE Stay
  IN  [left EXCEPT
         !.sent = SelectSeq(@, LAMBDA m : m.to # c),
         !.readyState = [readyState EXCEPT ![c] = "CLOSED"]]

\* ------------------------------------------------------------ operations
\* cleanupEmptyRooms going by age alone, whether or not a room has users
cleanupEmptyRooms_ByAgeOnly ==
  LET oneHourAgo == now - OneHour
      stale == {r \in DOMAIN rooms : rooms[r].createdAt < oneHourAgo}
  IN  [Stay EXCEPT !.rooms = [r \in DOMAIN rooms \ stale |-> rooms[r]]]

cleanupEmptyRooms ==
  LET oneHourAgo == now - OneHour
      stale == {r \in DOMAIN rooms :
                  rooms[r].users = <<>> /\ rooms[r].createdAt < oneHourAgo}
  IN  [Stay EXCEPT !.rooms = [r \in DOMAIN rooms \ stale |-> rooms[r]]]

\* getUsersCount(): userConnections.size
getUsersCount == Cardinality(DOMAIN userConnections)

\* the registered sockets that are OPEN, one entry per socket, in the order
\* the forEach first meets them (ids are registered in increasing order);
\* ws.close() takes a socket out of OPEN before the forEach meets it again
RECURSIVE ShutdownTargets(_, _)
ShutdownTargets(id, seen) ==
  IF id >= nextUuid THEN <<>>
  ELSE IF /\ id \in DOMAIN userConnections
          /\ readyState[userConnections[id]] = "OPEN"
          /\ userConnections[id] \notin seen
       THEN <<userConnections[id]>>
            \o ShutdownTargets(id + 1, seen \cup {userConnections[id]})
       ELSE ShutdownTargets(id + 1, seen)

shutdown ==
  LET targets == ShutdownTargets(1, {})
  IN  [Stay EXCEPT
         !.sent = [i \in 1..Len(targets) |->
                     Send(targets[i], [Msg("server_shutdown") EXCEPT
                                         !.message = "Server is shutting down"])],
         !.readyState = [c \in Conns |->
                           IF Has(targets, c) THEN "CLOSING" ELSE readyState[c]]]

\* --------------------------------------------------------------- actions
\* a message event is dispatched on a socket that is OPEN
Open(c) == readyState[c] = "OPEN"

\* uuidv4() can still return a fresh id within the bound
CanAllocate == nextUuid <= MaxUuids

OnCreateRoom(c) ==
  \E userName \in Names(c), roomCode \in Codes :
    Open(c) /\ CanAllocate /\ Install(onCreateRoom(c, userName, roomCode))

OnJoinRoom(c) ==
  \E userName \in Names(c), roomCode \in Codes :
    Open(c) /\ CanAllocate /\ Install(onJoinRoom(c, userName, roomCode))

OnAddSong(c) == Open(c) /\ CanAllocate /\ Install(onAddSong(c))

OnVoteSong(c) ==
  \E songId \in 1..MaxUuids : Open(c) /\ Install(onVoteSong(c, songId))

OnSkipSong(c) == Open(c) /\ Install(onSkipSong(c))

OnClearQueue(c) == Open(c) /\ Install(onClearQueue(c))

OnGetRoomState(c) == Open(c) /\ Install(onGetRoomState(c))

OnPing(c) == Open(c) /\ Install(onPing(c))

OnUnknownType(c) == Open(c) /\ Install(onUnknownType(c))

OnInvalidMessage(c) == Open(c) /\ Install(onInvalidMessage(c))

\* the transport starts closing: readyState leaves OPEN before the close
\* event is dispatched, and other sockets' events run in between
TransportClosing(c) ==
  /\ Open(c)
  /\ readyState' = [readyState EXCEPT ![c] = "CLOSING"]
  /\ UNCHANGED <<rooms, userConnections, session, nextUuid, now>>

OnClose(c) == readyState[c] \in {"OPEN", "CLOSING"} /\ Install(onClose(c))

Sweep == Install(cleanupEmptyRooms)

Shutdown == Install(shutdown)

\* Date.now() advances
Tick ==
  /\ \E t \in Instants : t > now /\ now' = t
  /\ UNCHANGED <<rooms, userConnections, session, readyState, nextUuid>>

\* ----------------------------------------------------------------- spec
Init ==
  /\ rooms = <<>>
  /\ userConnections = <<>>
  /\ session = [c \in Conns |-> NoSession]
  /\ readyState = [c \in Conns |-> "OPEN"]
  /\ nextUuid = 1
  /\ now = 0

Next ==
  \/ \E c \in Conns : OnCreateRoom(c)
  \/ \E c \in Conns : OnJoinRoom(c)
  \/ \E c \in Conns : OnAddSong(c)
  \/ \E c \in Conns : OnVoteSong(c)
  \/ \E c \in Conns : OnSkipSong(c)
  \/ \E c \in Conns : OnClearQueue(c)
  \/ \E c \in Conns : OnGetRoomState(c)
  \/ \E c \in Conns : OnPing(c)
  \/ \E c \in Conns : OnUnknownType(c)
  \/ \E c \in Conns : OnInvalidMessage(c)
  \/ \E c \in Conns : TransportClosing(c)
  \/ \E c \in Conns : OnClose(c)
  \/ Sweep
  \/ Shutdown
  \/ Tick

Spec == Init /\ [][Next]_vars

\* ======================================================================
\* Properties.  An event's outcome is the value of its operator in the
\* state the event arrives in, so a property of an event is stated over all
\* sockets and inputs in every reachable state.
\* ======================================================================

\* how many messages of a type a sequence of sends writes to a socket
Count(msgs, ws, type) ==
  Cardinality({i \in DOMAIN msgs : msgs[i].to = ws /\ msgs[i].type = type})

\* how many messages a sequence of sends writes to a socket
CountTo(msgs, ws) == Cardinality({i \in DOMAIN msgs : msgs[i].to = ws})

\* the member ids of a room that a broadcast can reach: registered, socket OPEN
Reachable(room, uc) ==
  {id \in UserIds(room) : id \in DOMAIN uc /\ readyState[uc[id]] = "OPEN"}

\* a message can arrive on socket c
Receives(c) == Open(c)

\* a close event can be dispatched on socket c
Closes(c) == readyState[c] \in {"OPEN", "CLOSING"}

\* the step is the event whose outcome is o
Step(o) == Install(o)

\* ---------------------------------------------------------------- C1
\* C1: a create_room whose roomCode is already registered fails: the caller
\* alone gets an error, nothing else is written, the caller's session is as
\* before, and the registered room keeps its users, queue and hostId.
\* (Stated for the non-empty room codes.)
C1_CreateExistingRoomFails ==
  [][\A c \in Conns : \A roomCode \in DOMAIN rooms : \A userName \in Names(c) :
       LET o == onCreateRoom(c, userName, roomCode)
       IN  (Truthy(roomCode) /\ Receives(c) /\ CanAllocate /\ Step(o)) =>
             /\ Len(o.sent) = 1
             /\ o.sent[1].to = c
             /\ o.sent[1].type = "error"
             /\ session'[c] = session[c]
             /\ roomCode \in DOMAIN rooms'
             /\ rooms'[roomCode].users = rooms[roomCode].users
             /\ rooms'[roomCode].queue = rooms[roomCode].queue
             /\ rooms'[roomCode].hostId = rooms[roomCode].hostId]_vars

\* ---------------------------------------------------------------- C2
\* the room a socket's session names, when it is registered
HasRoom(c) == session[c].roomId \in DOMAIN rooms

RoomOf(c) == rooms[session[c].roomId]

\* the outcome leaves the handler's maps, sessions and sockets as they are
NoEffect(o) ==
  /\ o.rooms = rooms
  /\ o.userConnections = userConnections
  /\ o.session = session
  /\ o.readyState = readyState
  /\ o.nextUuid = nextUuid

\* the outcome writes one message, an error, to socket c
OneErrorTo(o, c) ==
  Len(o.sent) = 1 /\ o.sent[1].to = c /\ o.sent[1].type = "error"

FannedOut(msgs, room, uc, excludeUserId) ==
  \A ws \in Conns :
    CountTo(msgs, ws) =
      Cardinality({id \in Reachable(room, uc) \ {excludeUserId} : uc[id] = ws})

AllOfType(msgs, type) == \A i \in DOMAIN msgs : msgs[i].type = type

\* C3: for every song in the queue and every user, a vote_song by a user who
\* is already in the song's votedBy fails: the room is unchanged, the caller
\* alone gets one error and no song_voted is written; a vote by a user who is
\* not yet in votedBy adds the user and broadcasts song_voted to the members.
C3_SecondVoteFails ==
  \A c \in Conns :
    (Receives(c) /\ Bound(c) /\ HasRoom(c)) =>
      \A songId \in SongIds(RoomOf(c)) :
        LET userId == session[c].userId
            roomId == session[c].roomId
            before == GetSong(RoomOf(c), songId).votedBy
            o == onVoteSong(c, songId)
        IN  IF userId \in before
            THEN NoEffect(o) /\ OneErrorTo(o, c)
            ELSE /\ roomId \in DOMAIN o.rooms
                 /\ GetSong(o.rooms[roomId], songId).votedBy = before \cup {userId}
                 /\ AllOfType(o.sent, "song_voted")
                 /\ FannedOut(o.sent, o.rooms[roomId], o.userConnections, NoId)

\* a member who has voted for a song still in the queue can send the vote
\* again, and another member could be reached by a broadcast
C3_Witness ==
  \E c \in Conns :
    /\ Receives(c) /\ Bound(c) /\ HasRoom(c)
    /\ session[c].userId \in UserIds(RoomOf(c))
    /\ \E songId \in SongIds(RoomOf(c)) :
         session[c].userId \in GetSong(RoomOf(c), songId).votedBy
    /\ Cardinality(Reachable(RoomOf(c), userConnections)) >= 2

\* ---------------------------------------------------------------- C4
\* the socket a participant id is registered to is c
On(id, c) == id \in DOMAIN userConnections /\ userConnections[id] = c

\* C4: when the connection of the last remaining user of a room closes, the
\* room is deleted in that same step and no user_left is written; and while
\* a code is not registered, a join_room for it gets 'Room not found'.
\* (Stated for the non-empty room codes.)
C4_LastUserCloseDeletesRoom ==
  [][\A c \in Conns : \A roomCode \in DOMAIN rooms :
       LET o == onClose(c)
           users == rooms[roomCode].users
       IN  (/\ Truthy(roomCode) /\ Closes(c) /\ Step(o)
            /\ Len(users) = 1 /\ On(users[1].id, c)) =>
             /\ roomCode \notin DOMAIN rooms'
             /\ Count(o.sent, c, "user_left") = 0
             /\ \A j \in Conns : \A userName \in Names(j) :
                  OneErrorTo(onJoinRoom(j, userName, roomCode)', j)]_vars

\* ---------------------------------------------------------------- C5
\* C5: every registered room whose users is non-empty has a hostId that is
\* the id of one of its users.
C5_HostIsMember ==
  \A roomCode \in DOMAIN rooms :
    rooms[roomCode].users # <<>> => rooms[roomCode].hostId \in UserIds(rooms[roomCode])

\* a room that was created, joined and left: it has a host and another user,
\* and the session of a closed socket names it with a user id it no longer has
C5_Witness ==
  \E roomCode \in DOMAIN rooms : \E c \in Conns :
    /\ Len(rooms[roomCode].users) >= 2
    /\ readyState[c] = "CLOSED"
    /\ session[c].roomId = roomCode
    /\ session[c].userId \notin UserIds(rooms[roomCode])
    /\ session[c].userId < rooms[roomCode].hostId

\* ---------------------------------------------------------------- C6
\* the users of a room whose registered socket is not c, in join order
Remaining(room, c) == SelectSeq(room.users, LAMBDA u : ~On(u.id, c))

\* C6: when the host disconnects and other users remain, the earliest-joined
\* remaining user becomes host and every user_left written carries that id
\* as newHost; when a non-host disconnects, hostId is unchanged and the
\* user_left written carries no newHost.  (Stated for the closing sockets
\* whose session names the room.)
C6_HostDisconnectMigrates ==
  [][\A c \in Conns : \A roomCode \in DOMAIN rooms :
       LET o == onClose(c)
           room == rooms[roomCode]
           remaining == Remaining(room, c)
           left == {i \in DOMAIN o.sent : o.sent[i].type = "user_left"}
       IN  (/\ Closes(c) /\ Step(o)
            /\ Bound(c) /\ session[c].roomId = roomCode
            /\ room.hostId \in UserIds(room) /\ remaining # <<>>) =>
             IF On(room.hostId, c)
             THEN /\ roomCode \in DOMAIN rooms'
                  /\ rooms'[roomCode].hostId = remaining[1].id
                  /\ \A i \in left : o.sent[i].newHost = remaining[1].id
             ELSE /\ roomCode \in DOMAIN rooms'
                  /\ rooms'[roomCode].hostId = room.hostId
                  /\ \A i \in left : o.sent[i].newHost = NoId]_vars

\* ---------------------------------------------------------------- C7
\* where a song of a queue stands in it
Position(queue, songId) == CHOOSE i \in DOMAIN queue : queue[i].id = songId

\* ranked is the queue stored, ordered by descending vote count, songs with
\* the same count in the order stored holds them (the order they were added)
Ranked(ranked, stored) ==
  /\ Len(ranked) = Len(stored)
  /\ Range(ranked) = Range(stored)
  /\ \A i, j \in DOMAIN ranked :
       i < j =>
         \/ Votes(ranked[i]) > Votes(ranked[j])
         \/ /\ Votes(ranked[i]) = Votes(ranked[j])
            /\ Position(stored, ranked[i].id) < Position(stored, ranked[j].id)

\* every snapshot an outcome writes has the queue of its room, as the outcome
\* leaves it, in rank order
SnapshotsRanked(o) ==
  LET sent == o.sent
      rs == o.rooms
  IN  \A i \in DOMAIN sent :
        sent[i].room # NoSnap =>
          /\ sent[i].room.id \in DOMAIN rs
          /\ Ranked(sent[i].room.queue, rs[sent[i].room.id].queue)

\* C7: in every snapshot written by any event, the queue is the room's queue
\* ordered by descending vote count (the size of votedBy), and songs with
\* equal vote counts stand in the order in which they were added.
C7_SnapshotQueueRanked ==
  /\ \A c \in Conns :
       Receives(c) =>
         /\ \A userName \in Names(c), roomCode \in Codes :
              /\ SnapshotsRanked(onCreateRoom(c, userName, roomCode))
              /\ SnapshotsRanked(onJoinRoom(c, userName, roomCode))
         /\ \A songId \in 1..MaxUuids : SnapshotsRanked(onVoteSong(c, songId))
         /\ SnapshotsRanked(onAddSong(c))
         /\ SnapshotsRanked(onSkipSong(c))
         /\ SnapshotsRanked(onClearQueue(c))
         /\ SnapshotsRanked(onGetRoomState(c))
  /\ \A c \in Conns : Closes(c) => SnapshotsRanked(onClose(c))

\* votes have put a song added later ahead of one added earlier, in a room
\* with a member who can send and be reached
C7_Witness ==
  \E c \in Conns :
    /\ Receives(c) /\ Bound(c) /\ HasRoom(c)
    /\ session[c].userId \in UserIds(RoomOf(c))
    /\ \E i, j \in DOMAIN RoomOf(c).queue :
         i < j /\ Votes(RoomOf(c).queue[i]) < Votes(RoomOf(c).queue[j])

\* ---------------------------------------------------------------- C8
\* C8: on a join_room for a registered room, the joiner's socket is written
\* exactly one room_joined, whose snapshot has the joiner among its users,
\* and no user_joined; every other socket is written one user_joined per
\* member registered to it with an open connection, and nothing else.
\* (Stated for the non-empty room codes.)
C8_JoinFanOut ==
  [][\A j \in Conns : \A roomCode \in DOMAIN rooms : \A userName \in Names(j) :
       LET o == onJoinRoom(j, userName, roomCode)
           members == Reachable(rooms[roomCode], userConnections)
       IN  (Truthy(roomCode) /\ Receives(j) /\ CanAllocate /\ Step(o)) =>
             /\ Count(o.sent, j, "room_joined") = 1
             /\ \A i \in DOMAIN o.sent :
                  o.sent[i].type = "room_joined" =>
                    /\ o.sent[i].to = j
                    /\ nextUuid \in UserIds(o.sent[i].room)
             /\ Count(o.sent, j, "user_joined") = 0
             /\ \A ws \in Conns \ {j} :
                  /\ Count(o.sent, ws, "user_joined") =
                       Cardinality({id \in members : userConnections[id] = ws})
                  /\ CountTo(o.sent, ws) = Count(o.sent, ws, "user_joined")]_vars

\* ---------------------------------------------------------------- C9
\* C9: when a socket whose session is bound closes and the session's room
\* is still registered afterwards, the session's user is in neither the
\* room's users nor the connection registry, only user_left is written, once
\* per remaining member registered to an open socket, and every user_left
\* names the departing user's id and name and has a snapshot without it.
C9_CloseBroadcastsUserLeft ==
  [][\A c \in Conns :
       LET o == onClose(c)
           userId == session[c].userId
           roomId == session[c].roomId
       IN  (/\ Closes(c) /\ Bound(c) /\ HasRoom(c) /\ Step(o)
            /\ roomId \in DOMAIN rooms') =>
             /\ userId \notin UserIds(rooms'[roomId])
             /\ userId \notin DOMAIN userConnections'
             /\ AllOfType(o.sent, "user_left")
             /\ \A ws \in Conns :
                  CountTo(o.sent, ws) =
                    Cardinality({id \in UserIds(rooms'[roomId]) :
                                   /\ id \in DOMAIN userConnections'
                                   /\ userConnections'[id] = ws
                                   /\ readyState'[ws] = "OPEN"})
             /\ \A i \in DOMAIN o.sent :
                  /\ o.sent[i].userId = userId
                  /\ o.sent[i].userName = NameOf[c]
                  /\ userId \notin UserIds(o.sent[i].room)]_vars

RankHead(queue) ==
  CHOOSE s \in Range(queue) :
    \A t \in Range(queue) :
      t.id # s.id =>
        \/ Votes(s) > Votes(t)
        \/ Votes(s) = Votes(t) /\ Position(queue, s.id) < Position(queue, t.id)

\* the outcome changes the room roomId into room, and nothing else
OnlyRoomBecomes(o, roomId, room) ==
  /\ o.rooms = [rooms EXCEPT ![roomId] = room]
  /\ o.userConnections = userConnections
  /\ o.session = session
  /\ o.readyState = readyState
  /\ o.nextUuid = nextUuid

WasSongId(id) ==
  /\ id \in 1..(nextUuid - 1)
  /\ id \notin DOMAIN userConnections
  /\ \A c \in Conns : session[c].userId # id

ErrorsOnlyTo(o, c) ==
  LET sent == o.sent
  IN  \A i \in DOMAIN sent : sent[i].type = "error" => sent[i].to = c

\* C13: every message of type error that an inbound message causes is written
\* to the socket the message arrived on, whatever the message and whoever
\* else is in the room; the events that are no inbound message (a close, the
\* sweep, the shutdown) write no error to anybody.
C13_ErrorsOnlyToCauser ==
  /\ \A c \in Conns :
       Receives(c) =>
         /\ \A userName \in Names(c), roomCode \in Codes :
              /\ ErrorsOnlyTo(onCreateRoom(c, userName, roomCode), c)
              /\ ErrorsOnlyTo(onJoinRoom(c, userName, roomCode), c)
         /\ \A songId \in 1..MaxUuids : ErrorsOnlyTo(onVoteSong(c, songId), c)
         /\ ErrorsOnlyTo(onAddSong(c), c)
         /\ ErrorsOnlyTo(onSkipSong(c), c)
         /\ ErrorsOnlyTo(onClearQueue(c), c)
         /\ ErrorsOnlyTo(onGetRoomState(c), c)
         /\ ErrorsOnlyTo(onPing(c), c)
         /\ ErrorsOnlyTo(onUnknownType(c), c)
         /\ ErrorsOnlyTo(onInvalidMessage(c), c)
  /\ \A c \in Conns : Closes(c) => ErrorsOnlyTo(onClose(c), NoConn)
  /\ ErrorsOnlyTo(cleanupEmptyRooms, NoConn)
  /\ ErrorsOnlyTo(shutdown, NoConn)

\* a member who is not the host and has voted can cause errors (a skip, a
\* second vote) while another member of its room and a socket that is in
\* no room are open
C13_Witness ==
  \E c, d, e \in Conns :
    /\ c # d /\ c # e /\ d # e
    /\ Receives(c) /\ Bound(c) /\ HasRoom(c)
    /\ RoomOf(c).hostId # session[c].userId
    /\ \E songId \in SongIds(RoomOf(c)) :
         session[c].userId \in GetSong(RoomOf(c), songId).votedBy
    /\ \E id \in Reachable(RoomOf(c), userConnections) : userConnections[id] = d
    /\ Receives(e) /\ session[e] = NoSession

\* --------------------------------------------------------------- C14
\* the outcome changes nothing and writes nothing
Ignored(o) == NoEffect(o) /\ o.sent = <<>>

\* C14: while the session of a socket is unset (no create_room or join_room
\* has succeeded on it), an add_song, vote_song, skip_song, clear_queue or
\* get_room_state it sends writes no message to anybody and changes no room,
\* no registry entry and no session.
C14_UnsetSessionIgnored ==
  \A c \in Conns :
    (Receives(c) /\ session[c] = NoSession) =>
      /\ Ignored(onAddSong(c))
      /\ \A songId \in 1..MaxUuids : Ignored(onVoteSong(c, songId))
      /\ Ignored(onSkipSong(c))
      /\ Ignored(onClearQueue(c))
      /\ Ignored(onGetRoomState(c))

\* a socket that has not created or joined can send while a room with a
\* song in its queue and a member who can be reached is registered
C14_Witness ==
  \E c \in Conns : \E roomCode \in DOMAIN rooms :
    /\ Receives(c) /\ session[c] = NoSession
    /\ rooms[roomCode].queue # <<>>
    /\ Reachable(rooms[roomCode], userConnections) # {}

\* --------------------------------------------------------------- C15
\* C15: on shutdown every socket that is open at that moment, registered to
\* a participant or not, is written exactly one server_shutdown and is open
\* no longer afterwards.  (Stated for the shutdowns that write to two sockets
\* or more: no other event takes two sockets out of OPEN in one step.)
C15_ShutdownNotifiesEveryOpenSocket ==
  [][LET o == shutdown
     IN  (Step(o) /\ Len(o.sent) >= 2) =>
           \A c \in Conns :
             Open(c) =>
               /\ Count(o.sent, c, "server_shutdown") = 1
               /\ readyState'[c] # "OPEN"]_vars

\* --------------------------------------------------------------- C16
\* C16: a message that cannot be parsed and a message of an unknown type each
\* write exactly one message, an error to the sender, and change nothing:
\* rooms, registry and every session are as before, and the sender's socket
\* is still open for its next message.
C16_BadMessageOnlyErrors ==
  \A c \in Conns :
    Receives(c) =>
      \A o \in {onInvalidMessage(c), onUnknownType(c)} :
        /\ NoEffect(o)
        /\ OneErrorTo(o, c)
        /\ o.readyState[c] = "OPEN"

\* the host of a room with a second member who can be reached can send such
\* a message
C16_Witness ==
  \E c \in Conns :
    /\ Receives(c) /\ Bound(c) /\ HasRoom(c)
    /\ RoomOf(c).hostId = session[c].userId
    /\ Cardinality(Reachable(RoomOf(c), userConnections)) >= 2

\* --------------------------------------------------------------- C17
\* the outcome changes no room but roomId, and every snapshot it writes is
\* the snapshot of room roomId as the outcome leaves it: all recipients get
\* the same one, taken after the handler's mutation
CarriesRoomAfter(o, roomId) ==
  LET sent == o.sent
      rs == o.rooms
  IN  /\ \A r \in DOMAIN rooms \ {roomId} : r \in DOMAIN rs /\ rs[r] = rooms[r]
      /\ \A i \in DOMAIN sent :
           sent[i].room # NoSnap =>
             roomId \in DOMAIN rs /\ sent[i].room = toJSON(rs[roomId])

\* C17: every message with a snapshot that a join_room, an add_song, a
\* vote_song, a skip_song, a clear_queue or a leave writes carries the
\* snapshot of the addressed room as that one handler leaves it; the handler
\* changes no other room, and all recipients are written the same snapshot.
C17_BroadcastCarriesRoomAfter ==
  /\ \A c \in Conns :
       Receives(c) =>
         /\ \A userName \in Names(c), roomCode \in Codes :
              CarriesRoomAfter(onJoinRoom(c, userName, roomCode), roomCode)
         /\ \A songId \in 1..MaxUuids :
              CarriesRoomAfter(onVoteSong(c, songId), session[c].roomId)
         /\ CarriesRoomAfter(onAddSong(c), session[c].roomId)
         /\ CarriesRoomAfter(onSkipSong(c), session[c].roomId)
         /\ CarriesRoomAfter(onClearQueue(c), session[c].roomId)
  /\ \A c \in Conns :
       Closes(c) => CarriesRoomAfter(onClose(c), session[c].roomId)

\* a member of a room with a song can send while members of the room can be
\* reached on two different sockets
C17_Witness ==
  \E c \in Conns :
    /\ Receives(c) /\ Bound(c) /\ HasRoom(c)
    /\ session[c].userId \in UserIds(RoomOf(c))
    /\ RoomOf(c).queue # <<>>
    /\ \E a, b \in Reachable(RoomOf(c), userConnections) :
         userConnections[a] # userConnections[b]

\* --------------------------------------------------------------- C18
\* the registered rooms that have a participant id among their users
RoomsOf(id) == {r \in DOMAIN rooms : id \in UserIds(rooms[r])}

\* C18: in every reachable state every participant id is among the users of
\* at most one registered room, and once in that room; and the session of a
\* socket on which a create_room or join_room has succeeded names one
\* participant and one room code, and that participant is a user of no
\* registered room but the one the session names.
C18_OneRoomPerParticipant ==
  /\ \A id \in 1..MaxUuids : Cardinality(RoomsOf(id)) <= 1
  /\ \A r \in DOMAIN rooms : Cardinality(UserIds(rooms[r])) = Len(rooms[r].users)
  /\ \A c \in Conns :
       session[c] # NoSession =>
         /\ session[c].userId # NoId
         /\ session[c].roomId \in Codes
         /\ RoomsOf(session[c].userId) \subseteq {session[c].roomId}

\* two rooms are registered, each with a participant that was created on
\* the same socket
C18_Witness ==
  \E c \in Conns : \E a, b \in DOMAIN userConnections :
    /\ a # b /\ On(a, c) /\ On(b, c)
    /\ RoomsOf(a) # {} /\ RoomsOf(b) # {}
    /\ RoomsOf(a) # RoomsOf(b)

\* --------------------------------------------------------------- C19
\* a registered room is older than the sweep's threshold
Old(r) == rooms[r].createdAt < now - OneHour

\* C19: whenever it runs, the sweep leaves registered exactly the rooms that
\* have a user or are not older than the threshold, removes the others (no
\* users and older than the threshold), leaves every room it keeps as it
\* is, and touches nothing else and writes nothing.
C19_SweepRemovesOnlyOldEmptyRooms ==
  LET o == cleanupEmptyRooms
  IN  /\ DOMAIN o.rooms =
           {r \in DOMAIN rooms : rooms[r].users # <<>> \/ ~Old(r)}
      /\ \A r \in DOMAIN o.rooms : o.rooms[r] = rooms[r]
      /\ o.userConnections = userConnections
      /\ o.session = session
      /\ o.readyState = readyState
      /\ o.sent = <<>>

\* the sweep runs while a room that is older than the threshold and has a
\* user is registered, next to a room that is not older
C19_Witness ==
  \E r, q \in DOMAIN rooms :
    /\ Old(r) /\ rooms[r].users # <<>>
    /\ ~Old(q) /\ rooms[q].users # <<>>

\* --------------------------------------------------------------- C20
\* C20: a broadcast to a registered room, with or without an excluded user,
\* writes the message once for every user of the room (other than the
\* excluded one) that is registered to a socket that is OPEN, to that socket,
\* and writes nothing else: the users whose socket is not OPEN are passed
\* over, wherever they stand among the users, and the users after them are
\* still written to.
C20_BroadcastSkipsClosedMembers ==
  \A roomId \in DOMAIN rooms : \A excludeUserId \in {NoId} \cup UserIds(rooms[roomId]) :
    LET sends == broadcastToRoom(rooms, userConnections, roomId,
                                 Msg("queue_cleared"), excludeUserId)
        users == rooms[roomId].users
        open == SelectSeq(users,
                  LAMBDA u : /\ u.id # excludeUserId
                             /\ u.id \in Reachable(rooms[roomId], userConnections))
    IN  /\ Len(sends) = Len(open)
        /\ \A i \in DOMAIN sends :
             /\ sends[i].to = userConnections[open[i].id]
             /\ sends[i].type = "queue_cleared"
        /\ FannedOut(sends, rooms[roomId], userConnections, excludeUserId)

\* in a registered room a user whose socket is no longer OPEN (closing, or
\* closed with the user still in the room) stands before a user whose socket
\* is OPEN
C20_Witness ==
  \E roomId \in DOMAIN rooms :
    \E i, j \in DOMAIN rooms[roomId].users :
      /\ i < j
      /\ rooms[roomId].users[i].id \notin Reachable(rooms[roomId], userConnections)
      /\ rooms[roomId].users[j].id \in Reachable(rooms[roomId], userConnections)

\* --------------------------------------------------------------- C21
\* the participant ids registered to socket c: every id a create_room or a
\* join_room of c has allocated and no leave has unregistered since
IdsOn(c) == {id \in DOMAIN userConnections : userConnections[id] = c}

\* C21: when the close event of a socket has been processed, no participant
\* id that was created for that socket is a key of the connection registry or
\* among the users of a registered room any longer, and every room that is
\* still registered has a user whose socket has not closed.  (Stated for the
\* closing sockets whose session names a registered room with a non-empty
\* code and whose participant ids are all users of that room.)
C21_ClosedSocketLeavesNothing ==
  [][\A c \in Conns :
       LET o == onClose(c)
       IN  (/\ Closes(c) /\ Step(o)
            /\ Bound(c) /\ HasRoom(c)
            /\ IdsOn(c) \subseteq UserIds(RoomOf(c))) =>
             /\ \A id \in IdsOn(c) :
                  /\ id \notin DOMAIN userConnections'
                  /\ \A r \in DOMAIN rooms' : id \notin UserIds(rooms'[r])
             /\ \A r \in DOMAIN rooms' :
                  \E id \in UserIds(rooms'[r]) :
                    /\ id \in DOMAIN userConnections'
                    /\ readyState'[userConnections'[id]] # "CLOSED"]_vars

\* --------------------------------------------------------------- C22
\* the types of the messages that are broadcast to a room
RoomBroadcasts ==
  {"user_joined", "user_left", "song_added", "song_voted", "song_skipped",
   "queue_cleared"}

\* every room broadcast the outcome writes goes to a socket whose session,
\* as the outcome leaves it, names the room the broadcast is of
OnlyToOwnRoom(o) ==
  LET sent == o.sent
  IN  \A i \in DOMAIN sent :
        (sent[i].type \in RoomBroadcasts /\ Truthy(sent[i].room.id)) =>
          o.session[sent[i].to].roomId = sent[i].room.id

\* C22: every user_joined, user_left, song_added, song_voted, song_skipped
\* and queue_cleared that an event writes is written to a socket whose
\* session names the room the message is of; a socket whose session is unset
\* or names another room is written none, also after its second create_room
\* or join_room.  (Stated for the broadcasts of rooms with a non-empty code.)
C22_BroadcastsOnlyToOwnRoom ==
  [][\A c \in Conns :
       /\ \A userName \in Names(c), roomCode \in Codes :
            LET o == onJoinRoom(c, userName, roomCode)
            IN  (Receives(c) /\ CanAllocate /\ Step(o)) => OnlyToOwnRoom(o)
       /\ LET o == onAddSong(c)
          IN  (Receives(c) /\ CanAllocate /\ Step(o)) => OnlyToOwnRoom(o)
       /\ \A songId \in 1..MaxUuids :
            LET o == onVoteSong(c, songId)
            IN  (Receives(c) /\ Step(o)) => OnlyToOwnRoom(o)
       /\ LET o == onSkipSong(c)
          IN  (Receives(c) /\ Step(o)) => OnlyToOwnRoom(o)
       /\ LET o == onClearQueue(c)
          IN  (Receives(c) /\ Step(o)) => OnlyToOwnRoom(o)
       /\ LET o == onClose(c)
          IN  (Closes(c) /\ Step(o)) => OnlyToOwnRoom(o)]_vars

\* --------------------------------------------------------------- C23
\* C23: a vote_song is accepted only from a session whose userId is among
\* the users of the registered room the session names: from any other
\* session it adds no vote to a song of that room and writes no song_voted.
C23_VoteOnlyFromMember ==
  [][\A c \in Conns : \A songId \in 1..MaxUuids :
       LET o == onVoteSong(c, songId)
       IN  (/\ Receives(c) /\ Bound(c) /\ HasRoom(c) /\ Step(o)
            /\ session[c].userId \notin UserIds(RoomOf(c))) =>
             /\ rooms' = rooms
             /\ \A ws \in Conns : Count(o.sent, ws, "song_voted") = 0]_vars

\* --------------------------------------------------------------- C24
\* the number of users of the rooms of a set of room codes, room by room
RECURSIVE UsersIn(_)
UsersIn(codes) ==
  IF codes = {} THEN 0
  ELSE LET r == CHOOSE x \in codes : TRUE
       IN  Len(rooms[r].users) + UsersIn(codes \ {r})

\* C24: in every reachable state the keys of the connection registry are
\* exactly the participant ids among the users of the registered rooms, and
\* getUsersCount is the number of users of all registered rooms together.
C24_RegistryIsMembers ==
  /\ DOMAIN userConnections = UNION {UserIds(rooms[r]) : r \in DOMAIN rooms}
  /\ getUsersCount = UsersIn(DOMAIN rooms)

====
